---- MODULE Spec2Model ----
\* OpenAPI -> SQL DDL generator (libs/pygenerate-sql-from-openapi).
\* The type mapper (core/type_mapper.py), the file writer (utils/file_writer.py),
\* the orchestrator (main.py) and the entry script (pygenerate-sql-from-openapi.py)
\* are translated from their sources; the schema
\* processor and the SQL generator, which main.py imports, are modelled from
\* their written contract.
EXTENDS Integers, Sequences, FiniteSets, TLC

VARIABLES
    TYPE_MAPPING,    \* type_mapper.py: the module-level dict (mutable in Python)
    prop,            \* get_sql_type: the property descriptor of the current call
    map_dialect,     \* get_sql_type: the dialect argument of the current call
    sql_type,        \* get_sql_type: outcome of the last call (value or exception)
    called,          \* whether get_sql_type has run on (prop, map_dialect)
    pc,              \* position of the run: new, failed, ready, load, ...
    dialect,         \* OpenApiSqlGenerator.__init__: the dialect argument
    raised,          \* the exception that left the constructor, or NoError
    fs_dirs,         \* file system: the directories that exist
    fs_files,        \* file system: path -> content of the regular files
    fs_before,       \* the file system as it was before the run started
    openapi_files,   \* generate_all: what find_openapi_files returned
    i,               \* generate_all: index of the service being processed
    schemas,         \* generate_all: the mapping extract_response_schemas returned
    j,               \* generate_all: index of the schema being generated
    sql_statements,  \* generate_all: the statements assembled for the service
    stdout,          \* the lines printed so far
    calls,           \* every SqlGenerator / FileWriter call made by generate_all
    results,         \* one record per service whose iteration has ended
    build_tree,      \* the build tree the processor reads, where it is fixed
    run,             \* the number of the run on this file system
    process          \* the entry point that started the run, its input and exit

mapper_vars == <<TYPE_MAPPING, prop, map_dialect, sql_type, called>>
input_vars == <<build_tree, run, process>>
run_vars == <<pc, dialect, raised, fs_dirs, fs_files, fs_before, openapi_files, i,
              schemas, j, sql_statements, stdout, calls, results,
              build_tree, run, process>>
vars == <<TYPE_MAPPING, prop, map_dialect, sql_type, called,
          pc, dialect, raised, fs_dirs, fs_files, fs_before, openapi_files, i,
          schemas, j, sql_statements, stdout, calls, results,
          build_tree, run, process>>

-----------------------------------------------------------------------------
\* Bounds of the model.

\* Most services find_openapi_files discovers in one run.
MaxServices == 2

\* Most schema definitions in one OpenAPI document.
MaxSchemas == 2

\* Most runs of the generator on one file system.
MaxRuns == 2

-----------------------------------------------------------------------------
\* core/type_mapper.py

\* A Python dict literal: the pairs <<key, value>> as a function on the keys.
Dict(pairs) ==
    [k \in {p[1] : p \in pairs} |-> (CHOOSE p \in pairs : p[1] = k)[2]]

\* The literal TYPE_MAPPING is bound to when the module is imported.
TYPE_MAPPING_LITERAL ==
    Dict({
        <<"postgresql", Dict({
            <<"integer", "INTEGER">>,
            <<"integer_int64", "BIGINT">>,
            <<"string", "VARCHAR(255)">>,
            <<"string_date-time", "TIMESTAMPTZ">>,
            <<"string_date", "DATE">>,
            <<"string_uuid", "VARCHAR(36)">>,
            <<"boolean", "BOOLEAN">>,
            <<"number", "DECIMAL(10,2)">>,
            <<"number_float", "REAL">>,
            <<"number_double", "DOUBLE PRECISION">>,
            <<"uuid_pk", "UUID DEFAULT gen_random_uuid() PRIMARY KEY">>})>>,
        <<"mysql", Dict({
            <<"integer", "INT">>,
            <<"integer_int64", "BIGINT">>,
            <<"string", "VARCHAR(255)">>,
            <<"string_date-time", "DATETIME">>,
            <<"string_date", "DATE">>,
            <<"string_uuid", "VARCHAR(36)">>,
            <<"boolean", "BOOLEAN">>,
            <<"number", "DECIMAL(10,2)">>,
            <<"number_float", "FLOAT">>,
            <<"number_double", "DOUBLE">>,
            <<"uuid_pk", "CHAR(36) DEFAULT (UUID()) PRIMARY KEY">>})>>,
        <<"sqlserver", Dict({
            <<"integer", "INT">>,
            <<"integer_int64", "BIGINT">>,
            <<"string", "NVARCHAR(255)">>,
            <<"string_date-time", "DATETIME2">>,
            <<"string_date", "DATE">>,
            <<"string_uuid", "UNIQUEIDENTIFIER">>,
            <<"boolean", "BIT">>,
            <<"number", "DECIMAL(10,2)">>,
            <<"number_float", "REAL">>,
            <<"number_double", "FLOAT">>,
            <<"uuid_pk", "UNIQUEIDENTIFIER DEFAULT NEWID() PRIMARY KEY">>})>>,
        <<"oracle", Dict({
            <<"integer", "NUMBER(10)">>,
            <<"integer_int64", "NUMBER(19)">>,
            <<"string", "VARCHAR2(255)">>,
            <<"string_date-time", "TIMESTAMP">>,
            <<"string_date", "DATE">>,
            <<"string_uuid", "VARCHAR2(36)">>,
            <<"boolean", "NUMBER(1)">>,
            <<"number", "NUMBER(10,2)">>,
            <<"number_float", "BINARY_FLOAT">>,
            <<"number_double", "BINARY_DOUBLE">>,
            <<"uuid_pk", "RAW(16) DEFAULT SYS_GUID() PRIMARY KEY">>})>>})

\* dict.get(key): the value in a one-element tuple, or <<>> for Python's None.
Get(d, key) == IF key \in DOMAIN d THEN <<d[key]>> ELSE <<>>

\* dict.get(key, default)
GetOr(d, key, default) == IF key \in DOMAIN d THEN d[key] ELSE default

\* How an f-string renders an optional string: None prints as "None".
Str(opt) == IF opt = <<>> THEN "None" ELSE opt[1]

\* `key in mapping` for an optional key: None is a key of no table.
In(opt, mapping) == opt # <<>> /\ opt[1] \in DOMAIN mapping

\* The two ways a call ends.
Return(v) == [raised |-> FALSE, value |-> v]
Raise(e) == [raised |-> TRUE, value |-> e]

\* get_sql_type without its `elif json_type in dialect_map` branch: an unknown
\* format on a known type falls to the default.
get_sql_type_no_fallback(p, d) ==
    IF d \notin DOMAIN TYPE_MAPPING THEN Raise("KeyError") ELSE
    LET dialect_map == TYPE_MAPPING[d]
        json_type == Get(p, "type")
        json_format == GetOr(p, "format", "")
        type_key == IF json_format # ""
                    THEN <<Str(json_type) \o "_" \o json_format>>
                    ELSE json_type
    IN  IF json_type = <<"uuid_pk">>
        THEN IF "uuid_pk" \in DOMAIN dialect_map
             THEN Return(dialect_map["uuid_pk"])
             ELSE Raise("KeyError")
        ELSE IF In(type_key, dialect_map) THEN Return(dialect_map[type_key[1]])
        ELSE Return("VARCHAR(255)")

\* get_sql_type whose primary-key branch reads the `string_uuid` entry.
get_sql_type_pk_as_string(p, d) ==
    IF d \notin DOMAIN TYPE_MAPPING THEN Raise("KeyError") ELSE
    LET dialect_map == TYPE_MAPPING[d]
        json_type == Get(p, "type")
        json_format == GetOr(p, "format", "")
        type_key == IF json_format # ""
                    THEN <<Str(json_type) \o "_" \o json_format>>
                    ELSE json_type
    IN  IF json_type = <<"uuid_pk">>
        THEN IF "string_uuid" \in DOMAIN dialect_map
             THEN Return(dialect_map["string_uuid"])
             ELSE Raise("KeyError")
        ELSE IF In(type_key, dialect_map) THEN Return(dialect_map[type_key[1]])
        ELSE IF In(json_type, dialect_map) THEN Return(dialect_map[json_type[1]])
        ELSE Return("VARCHAR(255)")

\* get_sql_type that indexes the table with the plain type without testing for
\* the key: a type no table knows raises KeyError.
get_sql_type_unguarded(p, d) ==
    IF d \notin DOMAIN TYPE_MAPPING THEN Raise("KeyError") ELSE
    LET dialect_map == TYPE_MAPPING[d]
        json_type == Get(p, "type")
        json_format == GetOr(p, "format", "")
        type_key == IF json_format # ""
                    THEN <<Str(json_type) \o "_" \o json_format>>
                    ELSE json_type
    IN  IF json_type = <<"uuid_pk">>
        THEN IF "uuid_pk" \in DOMAIN dialect_map
             THEN Return(dialect_map["uuid_pk"])
             ELSE Raise("KeyError")
        ELSE IF In(type_key, dialect_map) THEN Return(dialect_map[type_key[1]])
        ELSE IF In(json_type, dialect_map) THEN Return(dialect_map[json_type[1]])
        ELSE Raise("KeyError")

\* get_sql_type(prop, dialect); TYPE_MAPPING is the module-level dict.
get_sql_type(p, d) ==
    IF d \notin DOMAIN TYPE_MAPPING THEN Raise("KeyError") ELSE
    LET dialect_map == TYPE_MAPPING[d]
        json_type == Get(p, "type")
        json_format == GetOr(p, "format", "")
        type_key == IF json_format # ""
                    THEN <<Str(json_type) \o "_" \o json_format>>
                    ELSE json_type
    IN  IF json_type = <<"uuid_pk">>
        THEN IF "uuid_pk" \in DOMAIN dialect_map
             THEN Return(dialect_map["uuid_pk"])
             ELSE Raise("KeyError")
        ELSE IF In(type_key, dialect_map) THEN Return(dialect_map[type_key[1]])
        ELSE IF In(json_type, dialect_map) THEN Return(dialect_map[json_type[1]])
        ELSE Return("VARCHAR(255)")

\* The dialects main.py accepts.
supported_dialects == <<"postgresql", "mysql", "sqlserver", "oracle">>

\* Dialect arguments tried: the supported ones and one that is not.
DialectArgs == {"postgresql", "mysql", "sqlserver", "oracle", "db2"}

\* Values of a descriptor's `type` tried: table keys, the primary-key marker and
\* types no table knows.
TypeValues ==
    {"string", "integer", "number", "boolean", "uuid_pk", "uuid", "object",
     "array", "string_date"}

\* Values of a descriptor's `format` tried: table suffixes, unknown ones, empty.
FormatValues ==
    {"", "uuid", "date-time", "date", "int64", "int32", "float", "double", "pk",
     "binary"}

\* Property descriptors tried: type and format each present or missing, with and
\* without the isPrimaryKey key of the OpenAPI source.
Descriptors ==
    {[type |-> t, format |-> f] : t \in TypeValues, f \in FormatValues}
    \cup {[type |-> t, format |-> f, isPrimaryKey |-> TRUE] :
             t \in TypeValues, f \in FormatValues}
    \cup {[type |-> t] : t \in TypeValues}
    \cup {[format |-> f] : f \in FormatValues}
    \cup {[description |-> "free text"]}

\* One call of get_sql_type on the current descriptor and dialect.
Resolve ==
    /\ ~called
    /\ sql_type' = get_sql_type(prop, map_dialect)
    /\ called' = TRUE
    /\ UNCHANGED <<TYPE_MAPPING, prop, map_dialect>>
    /\ UNCHANGED run_vars

\* The caller moves on to its next descriptor.
NextDescriptor ==
    /\ called
    /\ \E p \in Descriptors, d \in DialectArgs :
          /\ prop' = p
          /\ map_dialect' = d
    /\ called' = FALSE
    /\ UNCHANGED <<TYPE_MAPPING, sql_type>>
    /\ UNCHANGED run_vars

-----------------------------------------------------------------------------
\* Strings

RECURSIVE Join(_, _)
\* sep.join(strings)
Join(strings, sep) ==
    IF strings = <<>> THEN ""
    ELSE IF Len(strings) = 1 THEN strings[1]
    ELSE strings[1] \o sep \o Join(Tail(strings), sep)

RECURSIVE Quoted(_)
\* The repr of each string of a list: 'a'
Quoted(strings) ==
    IF strings = <<>> THEN <<>>
    ELSE <<"'" \o strings[1] \o "'">> \o Quoted(Tail(strings))

\* How an f-string renders a list of strings: ['a', 'b']
Repr(strings) == "[" \o Join(Quoted(strings), ", ") \o "]"

\* str.upper() on the dialect arguments tried.
Upper(d) ==
    CASE d = "postgresql" -> "POSTGRESQL"
      [] d = "mysql" -> "MYSQL"
      [] d = "sqlserver" -> "SQLSERVER"
      [] d = "oracle" -> "ORACLE"
      [] d = "db2" -> "DB2"

\* `x in list`
Contains(list, x) == \E k \in 1..Len(list) : list[k] = x

-----------------------------------------------------------------------------
\* utils/file_writer.py

\* The output_dir argument the constructors default to.
output_dir == "sql"

\* FileWriter.__init__: self.output_dir = Path(output_dir) / dialect
writer_output_dir(d) == output_dir \o "/" \o d

\* FileWriter.__init__: the directories that exist after
\* self.output_dir.mkdir(parents=True, exist_ok=True).
FileWriter_init(dirs, d) == dirs \cup {output_dir, writer_output_dir(d)}

\* A writer with one file name for every service.
sql_file_path_shared(d, service_name) == writer_output_dir(d) \o "/schema.sql"

\* write_sql_file: file_path = self.output_dir / f"{service_name}.sql"
sql_file_path(d, service_name) ==
    writer_output_dir(d) \o "/" \o service_name \o ".sql"

\* write_sql_file: the header comment.
sql_header(d, service_name) ==
    "-- SQL DDL for " \o service_name \o "\n"
    \o "-- Database: " \o Upper(d) \o "\n"
    \o "-- Generated automatically from OpenAPI specification\n"
    \o "-- Do not edit manually\n"
    \o "\n"

\* A content whose statements follow each other line by line.
sql_content_no_blank(d, service_name, statements) ==
    sql_header(d, service_name) \o Join(statements, "\n")

\* write_sql_file: content = header + '\n\n'.join(sql_statements)
sql_content(d, service_name, statements) ==
    sql_header(d, service_name) \o Join(statements, "\n\n")

\* A writer that opens the file for appending.
write_sql_file_append(files, d, service_name, statements) ==
    LET file_path == sql_file_path(d, service_name)
    IN  [q \in DOMAIN files \cup {file_path} |->
            IF q = file_path
            THEN (IF q \in DOMAIN files THEN files[q] ELSE "")
                 \o sql_content(d, service_name, statements)
            ELSE files[q]]

\* write_sql_file: open(file_path, 'w') and f.write(content) replace whatever the
\* path held.
write_sql_file(files, d, service_name, statements) ==
    LET file_path == sql_file_path(d, service_name)
    IN  [q \in DOMAIN files \cup {file_path} |->
            IF q = file_path THEN sql_content(d, service_name, statements)
            ELSE files[q]]

-----------------------------------------------------------------------------
\* core/openapi_processor.py (imported by main.py; modelled from its contract)

\* The services a build tree may hold, in the order of their directories.
ServiceNames == <<"movies", "reviews", "users">>

RECURSIVE SeqsUpTo(_, _)
\* The sequences over S of length at most n.
SeqsUpTo(S, n) ==
    IF n = 0 THEN {<<>>}
    ELSE LET shorter == SeqsUpTo(S, n - 1)
         IN  shorter \cup {Append(q, x) : q \in {r \in shorter : Len(r) = n - 1}, x \in S}

\* find_openapi_files: one {service_name, file_path} per document found, the
\* name derived from the document's place in the build tree.
file_info(name) ==
    [service_name |-> name,
     file_path |-> "build/smithy/" \o name \o "/openapi/" \o name \o ".openapi.json"]

\* What find_openapi_files may return: the documents of any at most MaxServices
\* of the services, in directory order; none when the tree is absent or empty.
Discoveries ==
    {[k \in 1..Len(picked) |-> file_info(ServiceNames[picked[k]])] :
        picked \in {q \in SeqsUpTo(DOMAIN ServiceNames, MaxServices) :
                       \A a, b \in 1..Len(q) : a < b => q[a] < q[b]}}

\* Schema definitions a document may hold. `shape` tells a definition whose
\* `properties` or `required` is not of the type the generator reads.
UserSchema ==
    [shape |-> "ok",
     properties |-> << <<"id", [type |-> "string", format |-> "uuid", isPrimaryKey |-> TRUE]>>,
                       <<"email", [type |-> "string"]>>,
                       <<"createdAt", [type |-> "string", format |-> "date-time"]>> >>,
     required |-> <<"email">>]

StatusSchema ==
    [shape |-> "ok",
     properties |-> << <<"status", [type |-> "string"]>>,
                       <<"count", [type |-> "integer", format |-> "int32"]>> >>,
     required |-> <<>>]

EmptySchema ==
    [shape |-> "ok", properties |-> <<>>, required |-> <<"email">>]

BadPropertiesSchema ==
    [shape |-> "bad_properties", properties |-> <<>>, required |-> <<>>]

BadRequiredSchema ==
    [shape |-> "bad_required",
     properties |-> << <<"code", [type |-> "integer", format |-> "int64"]>> >>,
     required |-> <<>>]

\* The named schemas of components.schemas a document is built from.
NamedSchemas ==
    {[name |-> "UserResponse", def |-> UserSchema],
     [name |-> "UserResponse", def |-> EmptySchema],
     [name |-> "UserResponse", def |-> BadRequiredSchema],
     [name |-> "HealthStatus", def |-> StatusSchema],
     [name |-> "HealthStatus", def |-> BadPropertiesSchema],
     [name |-> "UserInput", def |-> UserSchema]}

\* The keys of a JSON object are unique.
UniqueNames(named) ==
    \A a, b \in 1..Len(named) : named[a].name = named[b].name => a = b

\* What a file of the build tree may hold: text that is not JSON, JSON whose
\* `components` is not an object, or a document of at most MaxSchemas schemas.
Documents ==
    {[kind |-> "malformed", schemas |-> <<>>],
     [kind |-> "bad_components", schemas |-> <<>>]}
    \cup {[kind |-> "ok", schemas |-> named] :
             named \in {q \in SeqsUpTo(NamedSchemas, MaxSchemas) : UniqueNames(q)}}

\* A build tree nothing is fixed about: each file read may hold any document.
UnknownTree == [known |-> FALSE, listing |-> <<>>, docs |-> <<>>, unwritable |-> {}]

\* find_openapi_files on the build tree: its listing where the tree is fixed.
find_openapi_files == IF build_tree.known THEN {build_tree.listing} ELSE Discoveries

\* The document load_openapi_spec may find at file_path.
DocumentsAt(file_path) ==
    IF build_tree.known THEN {build_tree.docs[file_path]} ELSE Documents

\* The documents of fixed build trees: those of at most one schema.
TreeDocuments == {doc \in Documents : Len(doc.schemas) <= 1}

\* The fixed build trees: a listing, the document of each listed file, and the
\* listed services whose output file cannot be opened.
BuildTrees ==
    UNION {{[known |-> TRUE, listing |-> found, docs |-> docs, unwritable |-> u] :
               docs \in [{found[k].file_path : k \in 1..Len(found)} -> TreeDocuments],
               u \in SUBSET ({"reviews"} \cap {found[k].service_name : k \in 1..Len(found)})} :
           found \in Discoveries}

\* load_openapi_spec: the parsed document; malformed input surfaces a parse error.
load_openapi_spec(doc) ==
    IF doc.kind = "malformed"
    THEN Raise("Expecting value: line 1 column 1 (char 0)")
    ELSE Return(doc)

\* The naming convention of a persistable entity: "Response" or "Status" in the
\* schema's name.
IsResponseSchema(name) == name \in {"UserResponse", "HealthStatus"}

\* snake_case of the schema and property names used.
snake_case(name) ==
    CASE name = "UserResponse" -> "user_response"
      [] name = "HealthStatus" -> "health_status"
      [] name = "UserInput" -> "user_input"
      [] name = "createdAt" -> "created_at"
      [] OTHER -> name

RECURSIVE response_schemas(_)
\* The matching schemas of a document, in the document's order, keyed by table name.
response_schemas(named) ==
    IF named = <<>> THEN <<>>
    ELSE (IF IsResponseSchema(named[1].name)
          THEN << [table_name |-> snake_case(named[1].name), schema_def |-> named[1].def] >>
          ELSE <<>>) \o response_schemas(Tail(named))

\* extract_response_schemas: the mapping table_name -> schema_def, in iteration
\* order; empty when no schema matches.
extract_response_schemas(doc) ==
    IF doc.kind = "bad_components"
    THEN Raise("'list' object has no attribute 'get'")
    ELSE Return(response_schemas(doc.schemas))

-----------------------------------------------------------------------------
\* generators/sql_generator.py (imported by main.py; modelled from its contract)

\* The primary-key column: the property named `id`.
IsIdentifier(prop_name) == prop_name = "id"

\* One column: its snake_case name and the type the mapper gives, the
\* identifier as the dialect's generated primary key.
column_type(property, d) ==
    IF IsIdentifier(property[1])
    THEN get_sql_type([type |-> "uuid_pk"], d)
    ELSE get_sql_type(property[2], d)

RECURSIVE columns(_, _)
\* The column definitions of the properties, in the property map's order.
columns(properties, d) ==
    IF properties = <<>> THEN <<>>
    ELSE << snake_case(properties[1][1]) \o " " \o column_type(properties[1], d).value >>
         \o columns(Tail(properties), d)

\* generate_create_table: the CREATE TABLE statement in a one-element tuple,
\* <<>> (absent) for a schema with no property; fails on a definition whose
\* `properties` is no mapping or whose type the mapper fails on.
generate_create_table(table_name, schema_def, d) ==
    IF schema_def.shape = "bad_properties"
    THEN Raise("'list' object has no attribute 'items'")
    ELSE IF \E k \in 1..Len(schema_def.properties) :
                column_type(schema_def.properties[k], d).raised
    THEN Raise("KeyError")
    ELSE IF schema_def.properties = <<>> THEN Return(<<>>)
    ELSE Return(<< "CREATE TABLE " \o table_name \o " ("
                   \o Join(columns(schema_def.properties, d), ", ") \o ");" >>)

RECURSIVE index_statements(_, _, _)
\* One CREATE INDEX per property that is required and not the primary key.
index_statements(table_name, properties, required) ==
    IF properties = <<>> THEN <<>>
    ELSE (IF Contains(required, properties[1][1]) /\ ~IsIdentifier(properties[1][1])
          THEN << "CREATE INDEX idx_" \o table_name \o "_" \o snake_case(properties[1][1])
                  \o " ON " \o table_name \o " (" \o snake_case(properties[1][1]) \o ");" >>
          ELSE <<>>) \o index_statements(table_name, Tail(properties), required)

\* generate_indexes: the CREATE INDEX statements of a schema, possibly none;
\* fails on a definition whose `required` is no list.
generate_indexes(table_name, schema_def, d) ==
    IF schema_def.shape \in {"bad_properties", "bad_required"}
    THEN Raise("argument of type 'int' is not iterable")
    ELSE Return(index_statements(table_name, schema_def.properties, schema_def.required))

-----------------------------------------------------------------------------
\* main.py

\* No exception.
NoError == [type |-> "", message |-> ""]

\* A printed line: the text, tagged with the print statement it comes from and
\* the index of the service being processed (0 outside the loop).
Line(tag, k, text) == [tag |-> tag, index |-> k, text |-> text]

\* The file system the run starts from: the tree an earlier postgresql run left
\* behind, one of its files edited since.
InitialTree ==
    [dirs |-> {"sql", "sql/postgresql"},
     files |-> [q \in {"sql/postgresql/movies.sql"} |-> "-- stale\n"]]

\* OpenApiSqlGenerator.__init__: the error of an unsupported dialect.
unsupported_dialect(d) ==
    [type |-> "ValueError",
     message |-> "Unsupported dialect: " \o d \o ". Supported: "
                 \o Repr(supported_dialects)]

\* A constructor that rejects only a missing dialect.
is_unsupported_unchecked(d) == d = ""

\* OpenApiSqlGenerator.__init__: `dialect not in self.supported_dialects`
is_unsupported(d) == ~Contains(supported_dialects, d)

\* The dialect argument the constructor may get: the one its entry point
\* passes, else any for a first run as a library, the same again for a later run.
dialect_arguments ==
    IF process.entry # "" THEN {process.dialect}
    ELSE IF run > 1 THEN {dialect}
    ELSE DialectArgs

\* OpenApiSqlGenerator(build_dir, output_dir, dialect): the FileWriter is built
\* (and its directory made) before the dialect is checked.
Construct ==
    /\ pc = "new"
    /\ \E d \in dialect_arguments :
          /\ dialect' = d
          /\ fs_dirs' = FileWriter_init(fs_dirs, d)
          /\ IF is_unsupported(d)
             THEN raised' = unsupported_dialect(d) /\ pc' = "failed"
             ELSE raised' = NoError /\ pc' = "ready"
    /\ UNCHANGED <<fs_files, fs_before, openapi_files, i, schemas, j,
                   sql_statements, stdout, calls, results>>
    /\ UNCHANGED mapper_vars
    /\ UNCHANGED input_vars

\* generate_all, lines 29-35: discovery; nothing found ends the call.
FindFiles ==
    /\ pc = "ready"
    /\ \E found \in find_openapi_files :
          /\ openapi_files' = found
          /\ IF found = <<>>
             THEN /\ stdout' = Append(stdout,
                        Line("none", 0, "No OpenAPI files found in build/smithy directory"))
                  /\ pc' = "returned"
                  /\ i' = i
             ELSE /\ stdout' = Append(stdout,
                        Line("found", 0, "Found " \o ToString(Len(found)) \o " OpenAPI files"))
                  /\ pc' = "load"
                  /\ i' = 1
    /\ UNCHANGED <<dialect, raised, fs_dirs, fs_files, fs_before, schemas,
                   j, sql_statements, calls, results>>
    /\ UNCHANGED mapper_vars
    /\ UNCHANGED input_vars

\* The service of the current iteration.
service_name == openapi_files[i].service_name

\* The end of an iteration of `for file_info in openapi_files`: the next
\* service, or the statement after the loop.
next_pc == IF i < Len(openapi_files) THEN "load" ELSE "summary"
next_i == IF i < Len(openapi_files) THEN i + 1 ELSE i

\* The locals of an iteration (schemas, the schema index,
\* sql_statements) are rebound before anything reads them again: the end of an
\* iteration leaves them unbound.
Unbound ==
    [schemas |-> <<>>, j |-> 0, sql_statements |-> <<>>]

EndIteration ==
    /\ i' = next_i
    /\ schemas' = Unbound.schemas
    /\ j' = Unbound.j
    /\ sql_statements' = Unbound.sql_statements

\* What an iteration that ended leaves on record: the stage it ended in, how,
\* the table names extract_response_schemas gave it (`extracted` their number,
\* -1 when there was no mapping) and the statements it had assembled.
Ended(stage, outcome, extracted, tables, statements) ==
    [index |-> i, service |-> service_name, stage |-> stage, outcome |-> outcome,
     extracted |-> extracted, tables |-> tables, statements |-> statements]

\* An except clause that prints and re-raises: the exception leaves generate_all.
except_reraises == "raised"

\* generate_all, lines 76-77: `except Exception as e` prints and the loop goes on.
except_pc == next_pc

\* The line the except clause prints.
ErrorLine(e) ==
    Line("error", i, "  Error processing " \o service_name \o ": " \o e)

\* generate_all without its `if not schemas: continue`.
no_schemas_never(extracted) == FALSE

\* generate_all, line 50: `if not schemas`
no_schemas(extracted) == extracted = <<>>

\* The table names of a mapping, in iteration order: list(schemas.keys())
keys(mapping) == [k \in 1..Len(mapping) |-> mapping[k].table_name]

\* A loop over the schemas that ends after its first item.
loop_pc_first_only(mapping, k) == IF k <= 1 THEN "table" ELSE "write"

\* `for table_name, schema_def in schemas.items()`: the body for the k-th item,
\* or the statement after the loop.
loop_pc(mapping, k) == IF k <= Len(mapping) THEN "table" ELSE "write"

\* A call made for the current service, as recorded: the operation, its table,
\* whether it returned (ok) or raised, and the statements it returned.
Call(op, table_name, ok, returned) ==
    [op |-> op, index |-> i, table |-> table_name, ok |-> ok, returned |-> returned]

\* generate_all, lines 37-58: the head of an iteration. The document is loaded
\* and its schemas extracted; a failure of either goes to the except clause, a
\* service with no schema is skipped (`continue`), any other gets its statement
\* list and its SqlGenerator.
LoadAndExtract ==
    /\ pc = "load"
    /\ \E doc \in DocumentsAt(openapi_files[i].file_path) :
          LET processing == Line("processing", i, "Processing " \o service_name \o "...")
              openapi_spec == load_openapi_spec(doc)
              extracted == IF openapi_spec.raised THEN openapi_spec
                           ELSE extract_response_schemas(openapi_spec.value)
          IN  IF extracted.raised
              THEN /\ stdout' = stdout \o <<processing, ErrorLine(extracted.value)>>
                   /\ results' = Append(results, Ended(
                          IF openapi_spec.raised THEN "load" ELSE "extract", "error",
                          -1, <<>>, <<>>))
                   /\ pc' = except_pc
                   /\ EndIteration
                   /\ calls' = calls
              ELSE IF no_schemas(extracted.value)
              THEN /\ stdout' = stdout \o <<processing, Line("no_schemas", i,
                           "  No Response/Status schemas found in " \o service_name)>>
                   /\ results' = Append(results, Ended("extract", "no_schemas",
                          Len(extracted.value), keys(extracted.value), <<>>))
                   /\ pc' = next_pc
                   /\ EndIteration
                   /\ calls' = calls
              ELSE /\ stdout' = stdout \o <<processing, Line("schemas", i,
                           "  Found " \o ToString(Len(extracted.value)) \o " schemas: "
                           \o Repr(keys(extracted.value)))>>
                   /\ results' = results
                   /\ pc' = loop_pc(extracted.value, 1)
                   /\ schemas' = extracted.value
                   /\ j' = 1
                   /\ sql_statements' = <<>>
                   /\ calls' = Append(calls, Call("SqlGenerator", "", TRUE, <<>>))
                   /\ i' = i
    /\ UNCHANGED <<dialect, raised, fs_dirs, fs_files, fs_before, openapi_files>>
    /\ UNCHANGED mapper_vars
    /\ UNCHANGED input_vars

\* generate_all, lines 62-64: generate_create_table for the current schema; the
\* statement is kept `if create_table`.
GenerateCreateTable ==
    /\ pc = "table"
    /\ LET table_name == schemas[j].table_name
           r == generate_create_table(table_name, schemas[j].schema_def, dialect)
       IN  IF r.raised
           THEN /\ stdout' = Append(stdout, ErrorLine(r.value))
                /\ results' = Append(results, Ended("table", "error", Len(schemas),
                                                  keys(schemas), sql_statements))
                /\ calls' = Append(calls, Call("generate_create_table", table_name, FALSE, <<>>))
                /\ pc' = except_pc
                /\ EndIteration
           ELSE /\ stdout' = stdout
                /\ results' = results
                /\ calls' = Append(calls, Call("generate_create_table", table_name, TRUE, r.value))
                /\ pc' = "indexes"
                /\ sql_statements' = sql_statements \o r.value
                /\ UNCHANGED <<i, schemas, j>>
    /\ UNCHANGED <<dialect, raised, fs_dirs, fs_files, fs_before, openapi_files>>
    /\ UNCHANGED mapper_vars
    /\ UNCHANGED input_vars

\* A list that takes the new statements at its front.
extend_front(statements, more) == more \o statements

\* generate_all, line 68: sql_statements.extend(indexes)
extend(statements, more) == statements \o more

\* generate_all, lines 67-68: generate_indexes for the current schema, then the
\* next schema.
GenerateIndexes ==
    /\ pc = "indexes"
    /\ LET table_name == schemas[j].table_name
           r == generate_indexes(table_name, schemas[j].schema_def, dialect)
       IN  IF r.raised
           THEN /\ stdout' = Append(stdout, ErrorLine(r.value))
                /\ results' = Append(results, Ended("indexes", "error", Len(schemas),
                                                  keys(schemas), sql_statements))
                /\ calls' = Append(calls, Call("generate_indexes", table_name, FALSE, <<>>))
                /\ pc' = except_pc
                /\ EndIteration
           ELSE /\ stdout' = stdout
                /\ results' = results
                /\ calls' = Append(calls, Call("generate_indexes", table_name, TRUE, r.value))
                /\ pc' = loop_pc(schemas, j + 1)
                /\ j' = j + 1
                /\ sql_statements' = extend(sql_statements, r.value)
                /\ UNCHANGED <<i, schemas>>
    /\ UNCHANGED <<dialect, raised, fs_dirs, fs_files, fs_before, openapi_files>>
    /\ UNCHANGED mapper_vars
    /\ UNCHANGED input_vars

\* generate_all writing the file whether or not there is a statement.
has_statements_always(statements) == TRUE

\* generate_all, line 70: `if sql_statements`
has_statements(statements) == statements # <<>>

\* What open(file_path, 'w') may do: open the file, or fail (a read-only tree, a
\* directory in the file's place) and leave the tree as it is.
OpenOutcomes == {"ok", "PermissionError"}

\* What open() does for the file of a service: on a fixed tree a file that
\* cannot be opened stays so.
open_outcomes(name) ==
    IF build_tree.known
    THEN {IF name \in build_tree.unwritable THEN "PermissionError" ELSE "ok"}
    ELSE OpenOutcomes

\* generate_all, lines 70-74: the service's file is written when there is a
\* statement; otherwise the service is reported to have no valid schema.
WriteOrSkip ==
    /\ pc = "write"
    /\ IF has_statements(sql_statements)
       THEN \E opened \in open_outcomes(service_name) :
               IF opened = "ok"
               THEN /\ fs_files' = write_sql_file(fs_files, dialect, service_name,
                                                  sql_statements)
                    /\ calls' = Append(calls, Call("write_sql_file", "", TRUE, <<>>))
                    /\ stdout' = Append(stdout, Line("generated", i,
                            "  Generated: " \o sql_file_path(dialect, service_name)))
                    /\ results' = Append(results, Ended("write", "written", Len(schemas),
                                                  keys(schemas), sql_statements))
               ELSE /\ fs_files' = fs_files
                    /\ calls' = Append(calls, Call("write_sql_file", "", FALSE, <<>>))
                    /\ stdout' = Append(stdout, ErrorLine("[Errno 13] Permission denied"))
                    /\ results' = Append(results, Ended("write", "error", Len(schemas),
                                                  keys(schemas), sql_statements))
       ELSE /\ fs_files' = fs_files
            /\ calls' = calls
            /\ stdout' = Append(stdout, Line("no_valid", i,
                    "  No valid schemas found for " \o service_name))
            /\ results' = Append(results, Ended("write", "no_ddl", Len(schemas),
                                                  keys(schemas), sql_statements))
    /\ pc' = next_pc
    /\ EndIteration
    /\ UNCHANGED <<dialect, raised, fs_dirs, fs_before, openapi_files>>
    /\ UNCHANGED mapper_vars
    /\ UNCHANGED input_vars

\* generate_all, line 79: the closing line.
Complete ==
    /\ pc = "summary"
    /\ stdout' = Append(stdout, Line("completed", 0, "SQL generation completed!"))
    /\ pc' = "returned"
    /\ UNCHANGED <<dialect, raised, fs_dirs, fs_files, fs_before, openapi_files, i,
                   schemas, j, sql_statements, calls, results>>
    /\ UNCHANGED mapper_vars
    /\ UNCHANGED input_vars

-----------------------------------------------------------------------------
\* The entry points: main() of main.py and main() of
\* pygenerate-sql-from-openapi.py. The pictographs that open some of the
\* script's lines are left out of the texts.

MAIN_PY == "main.py"
SCRIPT == "pygenerate-sql-from-openapi.py"

\* sys.argv[1:] of main.py: nothing, or a dialect.
Arguments == {<<>>} \cup {<<d>> : d \in DialectArgs}

\* Projects of params.json: without `database`, with a `database` without
\* `sgbd`, with a `database.sgbd`.
Projects ==
    {[name |-> "back-ms-movies"],
     [name |-> "back-ms-movies", database |-> [host |-> "localhost"]]}
    \cup {[name |-> "back-ms-movies", database |-> [sgbd |-> d]] : d \in DialectArgs}

\* libs/config/params.json: not there, not JSON, or a list of projects (of
\* which only the first is read).
Configs ==
    {[kind |-> "missing", projects |-> <<>>],
     [kind |-> "invalid", projects |-> <<>>],
     [kind |-> "ok", projects |-> <<>>]}
    \cup {[kind |-> "ok", projects |-> <<project>>] : project \in Projects}
    \cup {[kind |-> "ok", projects |-> <<[name |-> "back-ms-movies"],
                                         [name |-> "back-ms-users",
                                          database |-> [sgbd |-> "oracle"]]>>],
          [kind |-> "ok", projects |-> <<[name |-> "back-ms-movies",
                                          database |-> [sgbd |-> "mysql"]],
                                         [name |-> "back-ms-users",
                                          database |-> [sgbd |-> "db2"]]>>]}

\* A get_database_dialect that falls back on the default for a value it does
\* not know.
get_database_dialect_defaulting(projects_config) ==
    IF projects_config = <<>> THEN "postgresql"
    ELSE LET database_config == GetOr(projects_config[1], "database", <<>>)
             sgbd == GetOr(database_config, "sgbd", "postgresql")
         IN  IF Contains(supported_dialects, sgbd) THEN sgbd ELSE "postgresql"

\* get_database_dialect(projects_config)
get_database_dialect(projects_config) ==
    IF projects_config = <<>> THEN "postgresql"
    ELSE LET first_project == projects_config[1]
             database_config == GetOr(first_project, "database", <<>>)
         IN  GetOr(database_config, "sgbd", "postgresql")

\* The process ends with this status.
Exited(status) ==
    /\ process' = [process EXCEPT !.exit_status = status]
    /\ pc' = "exited"

\* main() of main.py, lines 83-91: usage and return when no dialect is given,
\* else the dialect is sys.argv[1].
main ==
    /\ pc = "start"
    /\ process.entry = MAIN_PY
    /\ IF Len(process.argv) < 1
       THEN /\ stdout' = stdout \o
                   <<Line("usage", 0, "Usage: python main.py <dialect> [build_dir] [output_dir]"),
                     Line("usage", 0, "Supported dialects: postgresql, mysql, sqlserver, oracle")>>
            /\ Exited(0)
       ELSE /\ stdout' = stdout
            /\ process' = [process EXCEPT !.dialect = process.argv[1]]
            /\ pc' = "new"
    /\ UNCHANGED <<dialect, raised, fs_dirs, fs_files, fs_before, openapi_files, i,
                   schemas, j, sql_statements, calls, results, build_tree, run>>
    /\ UNCHANGED mapper_vars

\* main() of the script, lines 38-48: return when params.json is not there;
\* else the configuration is loaded and the dialect read from it, a failure of
\* load_config going to the except clause (lines 60-62).
script_main ==
    /\ pc = "start"
    /\ process.entry = SCRIPT
    /\ IF process.config.kind = "missing"
       THEN /\ stdout' = Append(stdout, Line("config_missing", 0,
                    "Configuration file not found: libs/config/params.json"))
            /\ Exited(0)
       ELSE IF process.config.kind = "invalid"
       THEN /\ stdout' = Append(stdout, Line("fatal", 0,
                    "Error generating SQL: Expecting value: line 1 column 1 (char 0)"))
            /\ Exited(1)
       ELSE LET d == get_database_dialect(process.config.projects)
            IN  /\ stdout' = Append(stdout, Line("generating", 0,
                        "Generating SQL DDL scripts for " \o Upper(d) \o "..."))
                /\ process' = [process EXCEPT !.dialect = d]
                /\ pc' = "new"
    /\ UNCHANGED <<dialect, raised, fs_dirs, fs_files, fs_before, openapi_files, i,
                   schemas, j, sql_statements, calls, results, build_tree, run>>
    /\ UNCHANGED mapper_vars

\* The end of the entry point. main.py lines 93-94: the constructor's exception
\* is not caught and the interpreter ends with its traceback and status 1; a
\* generate_all that returned ends the process with status 0. The script,
\* lines 55-62: the exception is printed and sys.exit(1) called; after
\* generate_all the closing line is printed.
Exit ==
    /\ pc \in {"failed", "returned"}
    /\ process.entry # ""
    /\ IF pc = "failed"
       THEN /\ stdout' = Append(stdout,
                   IF process.entry = SCRIPT
                   THEN Line("fatal", 0, "Error generating SQL: " \o raised.message)
                   ELSE Line("traceback", 0, raised.type \o ": " \o raised.message))
            /\ Exited(1)
       ELSE /\ stdout' = (IF process.entry = SCRIPT
                          THEN Append(stdout, Line("complete", 0,
                                   "SQL generation complete for " \o Upper(dialect)))
                          ELSE stdout)
            /\ Exited(0)
    /\ UNCHANGED <<dialect, raised, fs_dirs, fs_files, fs_before, openapi_files, i,
                   schemas, j, sql_statements, calls, results, build_tree, run>>
    /\ UNCHANGED mapper_vars

\* The generator is run again on the tree the last run left, by a new process
\* with the same arguments.
Rerun ==
    /\ pc = "returned"
    /\ run < MaxRuns
    /\ run' = run + 1
    /\ pc' = "new"
    /\ raised' = NoError
    /\ fs_before' = [dirs |-> fs_dirs, files |-> fs_files]
    /\ openapi_files' = <<>>
    /\ i' = 0
    /\ stdout' = <<>>
    /\ calls' = <<>>
    /\ results' = <<>>
    /\ UNCHANGED <<dialect, fs_dirs, fs_files, schemas, j, sql_statements,
                   build_tree, process>>
    /\ UNCHANGED mapper_vars

-----------------------------------------------------------------------------
\* Specifications

\* The type mapper as imported, before any call.
MapperIdle ==
    /\ TYPE_MAPPING = TYPE_MAPPING_LITERAL
    /\ prop = [type |-> "string"]
    /\ map_dialect = "postgresql"
    /\ sql_type = Return("")
    /\ called = FALSE

\* The run before the generator is constructed, on the tree `tree`.
RunIdle(tree) ==
    /\ pc = "new"
    /\ dialect = ""
    /\ raised = NoError
    /\ fs_dirs = tree.dirs
    /\ fs_files = tree.files
    /\ fs_before = tree
    /\ openapi_files = <<>>
    /\ i = 0
    /\ schemas = Unbound.schemas
    /\ j = Unbound.j
    /\ sql_statements = Unbound.sql_statements
    /\ stdout = <<>>
    /\ calls = <<>>
    /\ results = <<>>
    /\ run = 1

\* The generator used as a library: no entry point, no exit status.
NoProcess ==
    [entry |-> "", argv |-> <<>>, config |-> <<>>, dialect |-> "", exit_status |-> -1]

\* One run of the generator: construction, then generate_all.
Init ==
    /\ MapperIdle
    /\ RunIdle(InitialTree)
    /\ build_tree = UnknownTree
    /\ process = NoProcess

Next ==
    \/ Construct
    \/ FindFiles
    \/ LoadAndExtract
    \/ GenerateCreateTable
    \/ GenerateIndexes
    \/ WriteOrSkip
    \/ Complete

Spec == Init /\ [][Next]_vars

\* Calls of get_sql_type on any descriptor and dialect.
MapperInit ==
    /\ TYPE_MAPPING = TYPE_MAPPING_LITERAL
    /\ prop \in Descriptors
    /\ map_dialect \in DialectArgs
    /\ sql_type = Return("")
    /\ called = FALSE
    /\ RunIdle(InitialTree)
    /\ build_tree = UnknownTree
    /\ process = NoProcess

MapperNext ==
    \/ Resolve
    \/ NextDescriptor

MapperSpec == MapperInit /\ [][MapperNext]_vars

\* Runs of the generator, one after the other, on a fixed build tree.
RerunInit ==
    /\ MapperIdle
    /\ RunIdle(InitialTree)
    /\ build_tree \in BuildTrees
    /\ process = NoProcess

RerunNext ==
    \/ Construct
    \/ FindFiles
    \/ LoadAndExtract
    \/ GenerateCreateTable
    \/ GenerateIndexes
    \/ WriteOrSkip
    \/ Complete
    \/ Rerun

RerunSpec == RerunInit /\ [][RerunNext]_vars

\* The build trees the entry points are run on: each listed document is not
\* JSON, has no matching schema, or has one with a table.
CliTrees ==
    {tree \in BuildTrees :
        \A q \in DOMAIN tree.docs :
            tree.docs[q] \in {[kind |-> "malformed", schemas |-> <<>>],
                              [kind |-> "ok", schemas |-> <<>>],
                              [kind |-> "ok", schemas |->
                                  <<[name |-> "UserResponse", def |-> UserSchema]>>]}}

\* The processes: either entry point, on any of its inputs.
Processes ==
    {[entry |-> MAIN_PY, argv |-> argv, config |-> <<>>, dialect |-> "",
      exit_status |-> -1] : argv \in Arguments}
    \cup {[entry |-> SCRIPT, argv |-> <<>>, config |-> config, dialect |-> "",
           exit_status |-> -1] : config \in Configs}

\* A process started from an entry point.
CliInit ==
    /\ MapperIdle
    /\ pc = "start"
    /\ dialect = ""
    /\ raised = NoError
    /\ fs_dirs = InitialTree.dirs
    /\ fs_files = InitialTree.files
    /\ fs_before = InitialTree
    /\ openapi_files = <<>>
    /\ i = 0
    /\ schemas = Unbound.schemas
    /\ j = Unbound.j
    /\ sql_statements = Unbound.sql_statements
    /\ stdout = <<>>
    /\ calls = <<>>
    /\ results = <<>>
    /\ run = 1
    /\ build_tree \in CliTrees
    /\ process \in Processes

CliNext ==
    \/ main
    \/ script_main
    \/ Construct
    \/ FindFiles
    \/ LoadAndExtract
    \/ GenerateCreateTable
    \/ GenerateIndexes
    \/ WriteOrSkip
    \/ Complete
    \/ Exit

CliSpec == CliInit /\ [][CliNext]_vars

-----------------------------------------------------------------------------
\* Properties of the type mapper (checked under MapperSpec)

\* The call under examination ran for a supported dialect.
Resolved == called /\ Contains(supported_dialects, map_dialect)

\* The table of the call's dialect, as the source writes it.
Table == TYPE_MAPPING_LITERAL[map_dialect]

\* The key "{type}_{format}" of the call's descriptor.
FormatKey == prop.type \o "_" \o GetOr(prop, "format", "")

\* The call's descriptor has a non-empty format and its "{type}_{format}" key is
\* in the table.
FormatKeyKnown ==
    /\ GetOr(prop, "format", "") # ""
    /\ FormatKey \in DOMAIN Table

\* C4 (as claimed): a descriptor with a type, neither of whose keys is in the
\* dialect's table, resolves to the type that dialect's table gives a plain string.
C4_DefaultIsDialectStringType ==
    (/\ Resolved
     /\ "type" \in DOMAIN prop
     /\ FormatKey \notin DOMAIN Table
     /\ prop.type \notin DOMAIN Table)
    => sql_type = Return(Table["string"])

\* C5: for every supported dialect and every descriptor with a type, the result
\* is the table's entry for "{type}_{format}" when the format is non-empty and
\* that key exists, and otherwise the table's entry for "{type}" when that key
\* exists.
C5_TableEntryReturned ==
    (Resolved /\ "type" \in DOMAIN prop)
    => /\ FormatKeyKnown => sql_type = Return(Table[FormatKey])
       /\ (~FormatKeyKnown /\ prop.type \in DOMAIN Table)
             => sql_type = Return(Table[prop.type])

\* C5 witness: integer/int32 on oracle resolved to the plain integer entry.
C5_Witness ==
    /\ Resolved
    /\ map_dialect = "oracle"
    /\ prop = [type |-> "integer", format |-> "int32"]
    /\ sql_type = Return("NUMBER(10)")

\* C6 (as claimed): a descriptor flagged isPrimaryKey resolves to the dialect's
\* generated-primary-key fragment whatever its type and format.
C6_FlaggedPrimaryKey ==
    (Resolved /\ "isPrimaryKey" \in DOMAIN prop /\ prop.isPrimaryKey)
    => sql_type = Return(Table["uuid_pk"])

\* C6 (amended): a descriptor whose type is the marker "uuid_pk" resolves to the
\* dialect's generated-primary-key fragment whatever its format and other keys.
C6_MarkerTypeIsPrimaryKey ==
    (Resolved /\ Get(prop, "type") = <<"uuid_pk">>)
    => sql_type = Return(Table["uuid_pk"])

\* C6 witness: the marker type with a format, on oracle.
C6_Witness ==
    /\ Resolved
    /\ map_dialect = "oracle"
    /\ prop = [type |-> "uuid_pk", format |-> "date-time", isPrimaryKey |-> TRUE]
    /\ sql_type = Return("RAW(16) DEFAULT SYS_GUID() PRIMARY KEY")

\* C7: for every supported dialect and every descriptor, get_sql_type returns a
\* string and raises nothing, and TYPE_MAPPING is what it was at import after
\* any number of calls.
C7_TotalAndPure ==
    /\ Resolved => (~sql_type.raised /\ sql_type.value \in STRING)
    /\ TYPE_MAPPING = TYPE_MAPPING_LITERAL

\* C7 witness: a descriptor with neither type nor format got the default.
C7_Witness ==
    /\ Resolved
    /\ DOMAIN prop = {"description"}
    /\ sql_type = Return("VARCHAR(255)")

-----------------------------------------------------------------------------
\* Properties of the run (checked under Spec)

\* The positions of a run whose generate_all has not raised.
RunPositions ==
    {"new", "failed", "ready", "load", "table", "indexes", "write", "summary",
     "returned"}

\* The recorded calls made for the k-th service, and its write calls.
CallsFor(k) == {c \in 1..Len(calls) : calls[c].index = k}
Writes(k) == {c \in CallsFor(k) : calls[c].op = "write_sql_file"}

\* The k-th service's output path.
PathOf(k) == sql_file_path(dialect, results[k].service)

\* The last service of the run, so far, that wrote the path of the k-th.
LastWriter(k) ==
    CHOOSE m \in 1..Len(results) :
        /\ results[m].outcome = "written"
        /\ PathOf(m) = PathOf(k)
        /\ \A n \in 1..Len(results) :
              (results[n].outcome = "written" /\ PathOf(n) = PathOf(k)) => n <= m

\* The index of each "Processing ..." line printed, in order.
Processed ==
    LET lines == SelectSeq(stdout, LAMBDA l : l.tag = "processing")
    IN  [k \in 1..Len(lines) |-> lines[k].index]

\* After the iteration of the k-th service the run goes on: it is in the
\* iteration of the next service, or that iteration has ended too.
GoesOnAfter(k) ==
    k < Len(openapi_files)
    => IF Len(results) = k
       THEN i = k + 1 /\ pc \in {"load", "table", "indexes", "write"}
       ELSE results[k + 1].index = k + 1

\* C1: no exception of a service's load, extraction, generation or write leaves
\* generate_all, which has a next step until it returns; and when generate_all
\* has returned every discovered service
\* was attempted exactly once, in discovery order, and every service that did
\* not fail and had statements has its file written.
C1_BatchSurvivesFailures ==
    /\ pc \in RunPositions
    /\ pc \in {"load", "table", "indexes", "write", "summary"} => ENABLED Next
    /\ (pc = "returned" /\ openapi_files # <<>>)
       => /\ Processed = [k \in 1..Len(openapi_files) |-> k]
          /\ Len(results) = Len(openapi_files)
          /\ \A k \in 1..Len(results) :
                /\ results[k].index = k
                /\ results[k].service = openapi_files[k].service_name
                /\ (results[k].outcome # "error" /\ results[k].statements # <<>>)
                   => /\ results[k].outcome = "written"
                      /\ Cardinality(Writes(k)) = 1
                      /\ PathOf(k) \in DOMAIN fs_files
                      /\ fs_files[PathOf(k)] =
                            sql_content(dialect, results[k].service,
                                        results[LastWriter(k)].statements)

\* C1 witness: a run of two services has returned, the first failed and the
\* second has its file.
C1_Witness ==
    /\ pc = "returned"
    /\ Len(results) = 2
    /\ results[1].outcome = "error"
    /\ results[2].outcome = "written"
    /\ PathOf(2) \in DOMAIN fs_files

\* C2: construction fails exactly for a dialect that is not one of the four
\* supported values, with a ValueError whose message names the value and lists
\* the four supported values.
C2_UnsupportedDialectRejected ==
    pc # "new"
    => IF dialect \in {"postgresql", "mysql", "sqlserver", "oracle"}
       THEN pc # "failed" /\ raised = NoError
       ELSE /\ pc = "failed"
            /\ raised.type = "ValueError"
            /\ raised.message = "Unsupported dialect: " \o dialect
                  \o ". Supported: ['postgresql', 'mysql', 'sqlserver', 'oracle']"

\* C2 witness: construction with db2 has failed.
C2_Witness ==
    /\ pc = "failed"
    /\ dialect = "db2"
    /\ raised.type = "ValueError"

\* C3 (as claimed): when construction fails on the dialect, the file system is
\* what it was before: no directory and no file has been created.
C3_NothingTouchedOnFatal ==
    pc = "failed" => (fs_dirs = fs_before.dirs /\ fs_files = fs_before.files)

\* C8: a service whose extracted mapping is empty is skipped: no SqlGenerator
\* or FileWriter call is made for it, the only lines printed for it are the
\* progress line and the no-schemas line (no error line), and the run goes on
\* with the next service.
C8_EmptyMappingSkipped ==
    \A k \in 1..Len(results) :
        results[k].extracted = 0
        => /\ CallsFor(k) = {}
           /\ results[k].outcome = "no_schemas"
           /\ \A l \in 1..Len(stdout) :
                 stdout[l].index = k => stdout[l].tag \in {"processing", "no_schemas"}
           /\ GoesOnAfter(k)

\* C8 witness: the first service had no matching schema and the second has
\* been written.
C8_Witness ==
    /\ Len(results) = 2
    /\ results[1].extracted = 0
    /\ results[2].outcome = "written"

\* The k-th service's generate_create_table calls that returned a statement.
TablesCreated(k) ==
    {c \in CallsFor(k) : /\ calls[c].op = "generate_create_table"
                         /\ calls[c].ok
                         /\ calls[c].returned # <<>>}

\* C9: write_sql_file is called for a service only after a generate_create_table
\* of that service returned a statement, every file of the tree was there before
\* the run or is the file of a service recorded as written, and a service whose
\* only schema gave no CREATE TABLE has no write and the run goes on after it.
C9_NoFileWithoutCreateTable ==
    /\ \A c \in 1..Len(calls) :
          calls[c].op = "write_sql_file"
          => \E t \in TablesCreated(calls[c].index) : t < c
    /\ \A q \in DOMAIN fs_files :
          \/ q \in DOMAIN fs_before.files
          \/ \E k \in 1..Len(results) :
                results[k].outcome = "written" /\ PathOf(k) = q /\ TablesCreated(k) # {}
    /\ \A k \in 1..Len(results) :
          (results[k].extracted = 1 /\ results[k].stage = "write" /\ TablesCreated(k) = {})
          => /\ Writes(k) = {}
             /\ results[k].outcome = "no_ddl"
             /\ GoesOnAfter(k)

\* C9 witness: the first service's only schema has no property, its iteration
\* ended without a write, and the second service has been written.
C9_Witness ==
    /\ Len(results) = 2
    /\ results[1].extracted = 1
    /\ results[1].outcome = "no_ddl"
    /\ \E c \in CallsFor(1) :
          calls[c].op = "generate_create_table" /\ calls[c].ok /\ calls[c].returned = <<>>
    /\ Writes(1) = {}
    /\ results[2].outcome = "written"

\* The k-th service's calls of `op` for table t that returned, made before call c.
ReturnedBefore(k, op, t, c) ==
    {b \in CallsFor(k) : b < c /\ calls[b].op = op /\ calls[b].table = t /\ calls[b].ok}

RECURSIVE Assembled(_, _)
\* The statements the generate calls of the k-th service returned, in call
\* order, among the first n recorded calls.
Assembled(k, n) ==
    IF n = 0 THEN <<>>
    ELSE Assembled(k, n - 1)
         \o (IF calls[n].index = k /\ calls[n].ok
                /\ calls[n].op \in {"generate_create_table", "generate_indexes"}
             THEN calls[n].returned ELSE <<>>)

\* C10: a service's file is written at most once, and only after
\* generate_create_table and generate_indexes have returned for every schema of
\* the service; a service one of whose generate calls raised has no write; and
\* every file written in the run holds exactly the complete statement list of a
\* service recorded as written (nothing of a failed service reaches a file).
C10_WriteOnceAfterAllGenerated ==
    /\ \A k \in 1..Len(openapi_files) : Cardinality(Writes(k)) <= 1
    /\ \A c \in 1..Len(calls) :
          calls[c].op = "write_sql_file"
          => LET k == calls[c].index
             IN  /\ k <= Len(results)
                 /\ \A n \in 1..Len(results[k].tables) :
                       /\ ReturnedBefore(k, "generate_create_table",
                                         results[k].tables[n], c) # {}
                       /\ ReturnedBefore(k, "generate_indexes",
                                         results[k].tables[n], c) # {}
    /\ \A c \in 1..Len(calls) :
          (calls[c].op \in {"generate_create_table", "generate_indexes"} /\ ~calls[c].ok)
          => Writes(calls[c].index) = {}
    /\ \A k \in 1..Len(results) :
          results[k].outcome = "written"
          => results[k].statements = Assembled(k, Len(calls))
    /\ \A q \in DOMAIN fs_files :
          \/ q \in DOMAIN fs_before.files /\ fs_files[q] = fs_before.files[q]
          \/ \E k \in 1..Len(results) :
                /\ results[k].outcome = "written"
                /\ PathOf(k) = q
                /\ fs_files[q] = sql_content(dialect, results[k].service,
                                             results[k].statements)

\* C10 witness: the first service had a statement assembled when
\* generate_indexes raised and has no write; the second, of two schemas, has
\* been written.
C10_Witness ==
    /\ Len(results) = 2
    /\ results[1].stage = "indexes"
    /\ results[1].outcome = "error"
    /\ results[1].statements # <<>>
    /\ Writes(1) = {}
    /\ results[2].outcome = "written"
    /\ Len(results[2].tables) = 2

-----------------------------------------------------------------------------
\* Reading a written file back

\* str.startswith
StartsWith(s, prefix) ==
    Len(s) >= Len(prefix) /\ SubSeq(s, 1, Len(prefix)) = prefix

\* `part in s` for strings
HasPart(s, part) ==
    \E p \in 1..(Len(s) - Len(part) + 1) : SubSeq(s, p, p + Len(part) - 1) = part

RECURSIVE LineEnd(_, _)
\* The position of the first newline of s at or after p, Len(s) + 1 if none.
LineEnd(s, p) ==
    IF p > Len(s) \/ SubSeq(s, p, p) = "\n" THEN p ELSE LineEnd(s, p + 1)

RECURSIVE LinesFrom(_, _)
LinesFrom(s, p) ==
    LET e == LineEnd(s, p)
    IN  <<SubSeq(s, p, e - 1)>> \o (IF e > Len(s) THEN <<>> ELSE LinesFrom(s, e + 1))

\* s.split('\n')
Lines(s) == LinesFrom(s, 1)

\* The SQL statements of the file at path q: its lines that are neither comment
\* nor blank.
FileStatements(q) ==
    SelectSeq(Lines(fs_files[q]), LAMBDA l : l # "" /\ ~StartsWith(l, "--"))

\* The statement creates table t / creates an index on table t.
IsCreateTable(stmt, t) == StartsWith(stmt, "CREATE TABLE " \o t \o " ")
IsCreateIndex(stmt, t) ==
    StartsWith(stmt, "CREATE INDEX ") /\ HasPart(stmt, " ON " \o t \o " (")

\* The places in the mapping's iteration order of the tables a statement names.
TablePlaces(stmt, tables) ==
    {n \in 1..Len(tables) : IsCreateTable(stmt, tables[n]) \/ IsCreateIndex(stmt, tables[n])}

\* The statements are there, each of them the CREATE TABLE or a CREATE INDEX
\* of exactly one of the tables, each CREATE INDEX after the CREATE TABLE of its
\* table, and all in the order of the tables.
TablesBeforeIndexes(stmts, tables) ==
    /\ stmts # <<>>
    /\ \A p \in 1..Len(stmts) : Cardinality(TablePlaces(stmts[p], tables)) = 1
    /\ \A p \in 1..Len(stmts) : \A n \in 1..Len(tables) :
          IsCreateIndex(stmts[p], tables[n])
          => \E q \in 1..(p - 1) : IsCreateTable(stmts[q], tables[n])
    /\ \A p, q \in 1..Len(stmts) :
          p < q => \A m \in TablePlaces(stmts[p], tables) :
                      \A n \in TablePlaces(stmts[q], tables) : m <= n

\* C11: in every file written in the run, every statement is the CREATE TABLE or
\* a CREATE INDEX of exactly one table of the service's extracted mapping, each
\* CREATE INDEX comes after the CREATE TABLE of its table, and the statements
\* follow the iteration order of the mapping.
C11_TableBeforeItsIndexes ==
    \A k \in 1..Len(results) :
        results[k].outcome = "written"
        => TablesBeforeIndexes(FileStatements(PathOf(k)), results[k].tables)

\* C11 witness: a written file holds the statements of two schemas, the first
\* with an index.
C11_Witness ==
    \E k \in 1..Len(results) :
        /\ results[k].outcome = "written"
        /\ Len(results[k].tables) = 2
        /\ LET stmts == FileStatements(PathOf(k))
           IN  /\ Len(stmts) = 3
               /\ IsCreateTable(stmts[1], results[k].tables[1])
               /\ IsCreateIndex(stmts[2], results[k].tables[1])
               /\ IsCreateTable(stmts[3], results[k].tables[2])

RECURSIVE BlankSeparated(_)
\* The lines of statements (each of one line) with one blank line between them.
BlankSeparated(statements) ==
    IF Len(statements) <= 1 THEN statements
    ELSE <<statements[1], "">> \o BlankSeparated(Tail(statements))

RECURSIVE Unlines(_)
\* The text of the given lines: a newline between two lines, none at the end.
Unlines(lines) ==
    IF lines = <<>> THEN ""
    ELSE IF Len(lines) = 1 THEN lines[1]
    ELSE lines[1] \o "\n" \o Unlines(Tail(lines))

\* The second header line of each dialect, as the contract spells it.
DatabaseLine ==
    [postgresql |-> "-- Database: POSTGRESQL", mysql |-> "-- Database: MYSQL",
     sqlserver |-> "-- Database: SQLSERVER", oracle |-> "-- Database: ORACLE"]

\* C12: every file written in the run reads, line by line: the four header
\* lines (service name, dialect in upper case, the two disclaimer lines), one
\* blank line, then the statements given to write_sql_file in their order with
\* exactly one blank line between two of them, and nothing else.
C12_HeaderThenStatements ==
    \A k \in 1..Len(results) :
        results[k].outcome = "written"
        => fs_files[PathOf(k)] = Unlines(
              << "-- SQL DDL for " \o openapi_files[k].service_name,
                 DatabaseLine[dialect],
                 "-- Generated automatically from OpenAPI specification",
                 "-- Do not edit manually",
                 "" >>
              \o BlankSeparated(results[k].statements))

\* C12 witness: a file of three statements has been written for sqlserver.
C12_Witness ==
    \E k \in 1..Len(results) :
        /\ results[k].outcome = "written"
        /\ dialect = "sqlserver"
        /\ Len(results[k].statements) = 3
        /\ Len(Lines(fs_files[PathOf(k)])) = 10

-----------------------------------------------------------------------------
\* Properties of repeated runs (checked under RerunSpec)

\* C13: when a run after the first has returned, the output tree is what the
\* run before left (same directories, same files, same content); and a file a
\* run has written holds the statements given to the writer and nothing else,
\* whatever the path held before.
C13_RegenerationIdempotent ==
    /\ (run > 1 /\ pc = "returned")
       => (fs_dirs = fs_before.dirs /\ fs_files = fs_before.files)
    /\ \A k \in 1..Len(results) :
          results[k].outcome = "written"
          => /\ FileStatements(PathOf(k)) = results[k].statements
             /\ Len(Lines(fs_files[PathOf(k)])) = 4 + 2 * Len(results[k].statements)

\* C13 witness: the second run has returned after writing again the file that
\* held other content before the first run.
C13_Witness ==
    /\ run = 2
    /\ pc = "returned"
    /\ \E k \in 1..Len(results) :
          /\ results[k].outcome = "written"
          /\ Writes(k) # {}
          /\ PathOf(k) \in DOMAIN InitialTree.files
          /\ fs_files[PathOf(k)] # InitialTree.files[PathOf(k)]

-----------------------------------------------------------------------------
\* Output paths (checked under Spec)

\* <output_dir>/<dialect>/<service_name>.sql of the k-th discovered service.
ServicePath(k) ==
    "sql/" \o dialect \o "/" \o openapi_files[k].service_name \o ".sql"

-----------------------------------------------------------------------------
\* Properties of the entry points (checked under CliSpec)

\* The process has ended.
HasExited == pc = "exited" /\ process.exit_status # -1

\* The dialect value the process was given: on the command line, or as
\* database.sgbd of the first project; <<>> when there is none.
GivenDialect ==
    IF process.entry = MAIN_PY THEN process.argv
    ELSE IF process.config.kind # "ok" \/ process.config.projects = <<>> THEN <<>>
    ELSE IF "database" \notin DOMAIN process.config.projects[1] THEN <<>>
    ELSE IF "sgbd" \notin DOMAIN process.config.projects[1].database THEN <<>>
    ELSE <<process.config.projects[1].database.sgbd>>

\* The given value is none of the four supported dialects.
GivenUnsupported ==
    /\ GivenDialect # <<>>
    /\ GivenDialect[1] \notin {"postgresql", "mysql", "sqlserver", "oracle"}

\* An error message is among the lines printed.
ErrorPrinted ==
    \E l \in 1..Len(stdout) : stdout[l].tag \in {"fatal", "traceback", "config_missing"}

\* C15 (as claimed): a process that has ended: when main.py was given no
\* dialect, has printed the usage, made no call and left the tree as it was,
\* and its status is 0; when the configuration file was missing or the dialect
\* unsupported, has printed an error message and its status is not 0; and when
\* generate_all returned, whatever errors its services had, its status is 0.
C15_ExitBehaviour ==
    HasExited
    => /\ (process.entry = MAIN_PY /\ process.argv = <<>>)
          => /\ process.exit_status = 0
             /\ \E l \in 1..Len(stdout) : stdout[l].tag = "usage"
             /\ calls = <<>>
             /\ fs_dirs = fs_before.dirs /\ fs_files = fs_before.files
       /\ ((process.entry = SCRIPT /\ process.config.kind = "missing") \/ GivenUnsupported)
          => (ErrorPrinted /\ process.exit_status # 0)
       /\ (\E l \in 1..Len(stdout) : stdout[l].tag \in {"completed", "none"})
          => process.exit_status = 0

\* C16: once the script has read its configuration, the dialect it passes on
\* is postgresql when the project list is empty or the first project has no
\* database.sgbd, and the configured value otherwise; with a configured value
\* that is none of the four supported dialects that value (never postgresql)
\* reaches the constructor, which fails with a ValueError: generate_all is not
\* run and the process ends with status 1.
C16_DialectFromConfiguration ==
    (process.entry = SCRIPT /\ process.config.kind = "ok" /\ pc # "start")
    => /\ process.dialect = (IF GivenDialect = <<>> THEN "postgresql" ELSE GivenDialect[1])
       /\ GivenUnsupported
          => /\ process.dialect # "postgresql"
             /\ pc \in {"new", "failed", "exited"}
             /\ openapi_files = <<>> /\ results = <<>> /\ fs_files = fs_before.files
             /\ pc # "new" => (raised.type = "ValueError" /\ dialect = GivenDialect[1])
             /\ pc = "exited" => process.exit_status = 1

\* C16 witness: the script, configured with db2, has ended with status 1 after
\* the constructor raised its ValueError.
C16_Witness ==
    /\ process.entry = SCRIPT
    /\ GivenDialect = <<"db2">>
    /\ HasExited
    /\ process.exit_status = 1
    /\ raised.type = "ValueError"

-----------------------------------------------------------------------------
\* The closing report of generate_all (checked under Spec)

\* The number of services of the run whose file was written.
FilesWritten ==
    Cardinality({k \in 1..Len(results) : results[k].outcome = "written"})

\* C17 (as claimed): when generate_all has returned from a pass over at least
\* one service, the last line it printed states the number of services
\* handled, or the number of files written, in the pass.
C17_SummaryStatesCount ==
    (pc = "returned" /\ openapi_files # <<>>)
    => /\ stdout # <<>>
       /\ \/ HasPart(stdout[Len(stdout)].text, ToString(Len(results)))
          \/ HasPart(stdout[Len(stdout)].text, ToString(FilesWritten))

====
